---------------------------- MODULE Spec2Model ----------------------------
(***************************************************************************)
(* A model of tema3.cpp: rooms (Clona / Camera<Derivata> / CameraTron /    *)
(* Temnita), the castle (Castel), the room factory (CameraFactory), the    *)
(* singleton king (Rege) and the menu loop of main().                      *)
(*                                                                         *)
(* Two specifications are given over the same state:                       *)
(*   Spec     main() run on a standard input fixed in the initial state;   *)
(*   SpecApi  an arbitrary single-threaded client of the classes' public   *)
(*            interface (factory, clone, info, Rege::getInstance, ...).    *)
(***************************************************************************)
EXTENDS Integers, Sequences, FiniteSets, TLC

VARIABLES
    pc,         \* position of the process: "init", "loop", "done", "api", "crashed"
    status,     \* exit status of the process (-1 while it runs)
    optiune,    \* main's local  int optiune
    rege,       \* main's local  Rege& rege  (0 before it is bound)
    input,      \* the tokens typed on standard input (fixed by Init)
    cin,        \* std::cin: [buf, pos, failbit, eofbit]
    cause,      \* why the first failed extraction failed ("none" before)
    choices,    \* the value of optiune at each  switch (optiune)  so far
    cout,       \* std::cout: the non-empty fragments inserted so far
    heap,       \* the live Clona objects: address -> dynamic type
    nextId,     \* the next fresh address
    instanta,   \* Rege::instanta (0 is nullptr, else an index of regi)
    regi,       \* every Rege object constructed so far
    refs,       \* client: the references Rege::getInstance() returned
    locals,     \* client: its local std::unique_ptr<Clona> variables
    call,       \* client: the last call it made, [op, arg, ret]
    ub          \* TRUE once undefined behaviour has been executed

vars == <<pc, status, optiune, rege, input, cin, cause, choices, cout, heap,
          nextId, instanta, regi, refs, locals, call, ub>>

---------------------------------------------------------------------------
(* Bounds of the model. *)

\* longest standard input, in tokens
MaxTokens == 5
\* longest standard input of FairSpec, in tokens
MaxLiveTokens == 2
\* iterations of the menu loop that are explored
MaxIter == MaxTokens + 1
\* addresses the client of SpecApi may allocate
MaxObjs == 2
\* local unique_ptr variables the client holds at once
MaxLocals == 2
\* references to the singleton the client holds
MaxRefs == 2
\* fragments on std::cout after which the client stops printing
MaxOut == 1

---------------------------------------------------------------------------
(* Values. *)

\* nullptr
nullptr == 0

\* enum TipCamera { CAMERA_TRON, TEMNITA }
CAMERA_TRON == 0
TEMNITA == 1

\* enum Optiune { ADD_CAMERA=1, ADD_TEMNITA, DESC_CASTEL, IESIRE }
ADD_CAMERA == 1
ADD_TEMNITA == ADD_CAMERA + 1
DESC_CASTEL == ADD_TEMNITA + 1
IESIRE == DESC_CASTEL + 1

\* the range of  int
IntMax == 2147483647
IntMin == -IntMax - 1

Last(s) == s[Len(s)]

\* s1 \o s2 \o ... for a sequence of sequences
RECURSIVE Concat(_)
Concat(ss) == IF ss = <<>> THEN <<>> ELSE Head(ss) \o Concat(Tail(ss))

---------------------------------------------------------------------------
(* std::cout << s *)

Put(out, s) == IF s = "" THEN out ELSE Append(out, s)

RECURSIVE PutAll(_, _)
PutAll(out, ss) == IF ss = <<>> THEN out ELSE PutAll(Put(out, Head(ss)), Tail(ss))

---------------------------------------------------------------------------
(* Rooms. *)

CameraTron_info(out) == Put(out, "camera tronului, ")

Temnita_info(out) == Put(out, "temnita, ")

\* camera->info(): virtual dispatch on the dynamic type of *p (p not null)
Clona_info(h, p, out) ==
    IF h[p] = "CameraTron" THEN CameraTron_info(out) ELSE Temnita_info(out)

\* the address a new object gets
Alloc(n) == n

\* a clone that hands back the source itself
clone_alias(h, n, p) == [heap |-> h, nextId |-> n, ret |-> p]

\* Camera<Derivata>::clone(): a new Derivata copy-constructed from *p
clone(h, n, p) ==
    [heap |-> (Alloc(n) :> h[p]) @@ h, nextId |-> n + 1, ret |-> Alloc(n)]

\* ~unique_ptr<Clona>(): the owned object, if any, is destroyed
Destroy(h, p) == [q \in DOMAIN h \ {p} |-> h[q]]

---------------------------------------------------------------------------
(* Castel. *)

\* a castle that puts the new room in front
adaugaCamera_front(castel, camera) ==
    [castel EXCEPT !.camere = <<camera>> \o @]

\* a castle that overwrites its last room once it has one
adaugaCamera_replace(castel, camera) ==
    [castel EXCEPT !.camere = IF @ = <<>> THEN <<camera>>
                              ELSE SubSeq(@, 1, Len(@) - 1) \o <<camera>>]

\* Castel::adaugaCamera: camere.push_back(std::move(camera))
adaugaCamera(castel, camera) ==
    [castel EXCEPT !.camere = Append(@, camera)]

\* for (const auto& camera : camere) camera->info();
RECURSIVE InfoAll(_, _, _)
InfoAll(camere, h, out) ==
    IF camere = <<>> THEN out
    ELSE InfoAll(Tail(camere), h, Clona_info(h, Head(camere), out))

\* a castle that describes all rooms but the last one
Castel_info_short(castel, h, out) ==
    LET all == castel.camere
        cut == IF all = <<>> THEN all ELSE SubSeq(all, 1, Len(all) - 1)
    IN  Put(Put(InfoAll(cut, h, Put(out, "Castelul are: ")), ""), "\n")

\* a castle that prints a placeholder when it has no room
Castel_info_filler(castel, h, out) ==
    LET body == IF castel.camere = <<>> THEN Put(Put(out, "Castelul are: "), "nimic")
                ELSE InfoAll(castel.camere, h, Put(out, "Castelul are: "))
    IN  Put(Put(body, ""), "\n")

\* Castel::info, for a castle without a null entry
Castel_info(castel, h, out) ==
    Put(Put(InfoAll(castel.camere, h, Put(out, "Castelul are: ")), ""), "\n")

\* the entries of camere before the first null one
RECURSIVE BeforeNull(_)
BeforeNull(camere) ==
    IF camere = <<>> \/ Head(camere) = nullptr THEN <<>>
    ELSE <<Head(camere)>> \o BeforeNull(Tail(camere))

HasNull(castel) == \E i \in DOMAIN castel.camere : castel.camere[i] = nullptr

\* Castel::info on a castle with a null entry: camera->info() through a null
\* pointer is undefined. The outcomes: the process dies at that call, or the
\* call does nothing and the loop goes on.
Castel_info_undefined(castel, h, out) ==
    { [cout    |-> InfoAll(BeforeNull(castel.camere), h, Put(out, "Castelul are: ")),
       crashed |-> TRUE],
      [cout    |-> Put(InfoAll(SelectSeq(castel.camere, LAMBDA p : p # nullptr), h,
                               Put(out, "Castelul are: ")), "\n"),
       crashed |-> FALSE] }

---------------------------------------------------------------------------
(* CameraFactory. *)

\* a factory whose TEMNITA case falls through to the default
creareCamera_fallthrough(h, n, tip) ==
    IF tip = CAMERA_TRON
    THEN [heap |-> (Alloc(n) :> "CameraTron") @@ h, nextId |-> n + 1, ret |-> Alloc(n)]
    ELSE [heap |-> h, nextId |-> n, ret |-> nullptr]

\* a factory that makes a dungeon for every kind but CAMERA_TRON
creareCamera_nodefault(h, n, tip) ==
    IF tip = CAMERA_TRON
    THEN [heap |-> (Alloc(n) :> "CameraTron") @@ h, nextId |-> n + 1, ret |-> Alloc(n)]
    ELSE [heap |-> (Alloc(n) :> "Temnita") @@ h, nextId |-> n + 1, ret |-> Alloc(n)]

\* CameraFactory::creareCamera(tip)
creareCamera(h, n, tip) ==
    CASE tip = CAMERA_TRON ->
           [heap |-> (Alloc(n) :> "CameraTron") @@ h, nextId |-> n + 1, ret |-> Alloc(n)]
      [] tip = TEMNITA ->
           [heap |-> (Alloc(n) :> "Temnita") @@ h, nextId |-> n + 1, ret |-> Alloc(n)]
      [] OTHER ->
           [heap |-> h, nextId |-> n, ret |-> nullptr]

---------------------------------------------------------------------------
(* Rege. *)

\* Rege() = default: a king with an empty castle
NewRege == [castel |-> [camere |-> <<>>]]

\* a getInstance that constructs a king on every call
getInstance_always(inst, rs) ==
    [instanta |-> Len(rs) + 1, regi |-> Append(rs, NewRege), ret |-> Len(rs) + 1]

\* Rege::getInstance()
getInstance(inst, rs) ==
    IF inst = nullptr
    THEN [instanta |-> Len(rs) + 1, regi |-> Append(rs, NewRege), ret |-> Len(rs) + 1]
    ELSE [instanta |-> inst, regi |-> rs, ret |-> inst]

\* Rege::adaugaCameraCastel
adaugaCameraCastel(r, camera) == [r EXCEPT !.castel = adaugaCamera(@, camera)]

\* Rege::infoCastel
infoCastel(r, h, out) == Castel_info(r.castel, h, out)

---------------------------------------------------------------------------
(* std::cin >> optiune  (std::istream::operator>>(int&), "C" locale). *)

Space  == {" ", "\n"}
Digits == {"0", "1", "2", "3", "4", "5", "6", "7", "8", "9"}
DigitVal == [c \in Digits |->
               CASE c = "0" -> 0 [] c = "1" -> 1 [] c = "2" -> 2 [] c = "3" -> 3
                 [] c = "4" -> 4 [] c = "5" -> 5 [] c = "6" -> 6 [] c = "7" -> 7
                 [] c = "8" -> 8 [] c = "9" -> 9]

\* the sentry skips leading white space
RECURSIVE SkipWs(_, _)
SkipWs(buf, p) ==
    IF p < Len(buf) /\ buf[p + 1] \in Space THEN SkipWs(buf, p + 1) ELSE p

\* num_get accumulates the digits that follow. The magnitude m is exact while
\* big = 0; big = 1 says it is IntMax + 1, big = 2 that it is larger still.
ScanStep(st, d) ==
    LET fits == st.big = 0 /\ (st.m < (IntMax \div 10)
                               \/ (st.m = (IntMax \div 10) /\ d <= (IntMax % 10)))
        edge == st.big = 0 /\ st.m = (IntMax \div 10) /\ d = (IntMax % 10) + 1
    IN  [pos |-> st.pos + 1,
         m   |-> IF fits THEN st.m * 10 + d ELSE st.m,
         big |-> IF fits THEN 0 ELSE IF edge THEN 1 ELSE 2,
         any |-> TRUE]

RECURSIVE ScanDigits(_, _)
ScanDigits(buf, st) ==
    IF st.pos < Len(buf) /\ buf[st.pos + 1] \in Digits
    THEN CHOOSE r \in { ScanDigits(buf, n) :
                          n \in {ScanStep(st, DigitVal[buf[st.pos + 1]])} } : TRUE
    ELSE st

\* the scan starts after an optional sign
ScanFrom(buf, q) ==
    ScanDigits(buf, [pos |-> IF buf[q + 1] \in {"+", "-"} THEN q + 1 ELSE q,
                     m |-> 0, big |-> 0, any |-> FALSE])

\* an extraction that stores 0 whenever it fails, also when the sentry fails
Extract_zero(s, old) ==
    IF s.failbit \/ s.eofbit
    THEN [cin |-> [s EXCEPT !.failbit = TRUE], val |-> 0, why |-> "eof"]
    ELSE LET q == SkipWs(s.buf, s.pos) IN
         IF q = Len(s.buf)
         THEN [cin |-> [s EXCEPT !.pos = q, !.failbit = TRUE, !.eofbit = TRUE],
               val |-> 0, why |-> "eof"]
         ELSE LET neg == s.buf[q + 1] = "-"
                  r   == ScanFrom(s.buf, q)
                  out == (neg /\ r.big = 2) \/ (~neg /\ r.big > 0)
              IN  [cin |-> [s EXCEPT !.pos = r.pos,
                                     !.failbit = ~r.any \/ out,
                                     !.eofbit = (r.pos = Len(s.buf))],
                   val |-> IF ~r.any THEN 0
                           ELSE IF neg THEN (IF r.big > 0 THEN IntMin ELSE -r.m)
                           ELSE (IF r.big > 0 THEN IntMax ELSE r.m),
                   why |-> IF ~r.any THEN "nonnumeric"
                           ELSE IF out THEN "range" ELSE "none"]

\* std::cin >> optiune on the stream s, optiune holding old.
\*  - sentry: a stream that is not good() gets failbit and nothing is stored;
\*    reaching the end while skipping white space sets eofbit and failbit and
\*    nothing is stored;
\*  - otherwise num_get parses [sign] digits: no digit stores 0 and sets
\*    failbit; a value outside int stores the nearest end of the range and sets
\*    failbit; reaching the end of the buffer sets eofbit.
Extract(s, old) ==
    IF s.failbit \/ s.eofbit
    THEN [cin |-> [s EXCEPT !.failbit = TRUE], val |-> old, why |-> "eof"]
    ELSE LET q == SkipWs(s.buf, s.pos) IN
         IF q = Len(s.buf)
         THEN [cin |-> [s EXCEPT !.pos = q, !.failbit = TRUE, !.eofbit = TRUE],
               val |-> old, why |-> "eof"]
         ELSE LET neg == s.buf[q + 1] = "-"
                  r   == ScanFrom(s.buf, q)
                  out == (neg /\ r.big = 2) \/ (~neg /\ r.big > 0)
              IN  [cin |-> [s EXCEPT !.pos = r.pos,
                                     !.failbit = ~r.any \/ out,
                                     !.eofbit = (r.pos = Len(s.buf))],
                   val |-> IF ~r.any THEN 0
                           ELSE IF neg THEN (IF r.big > 0 THEN IntMin ELSE -r.m)
                           ELSE (IF r.big > 0 THEN IntMax ELSE r.m),
                   why |-> IF ~r.any THEN "nonnumeric"
                           ELSE IF out THEN "range" ELSE "none"]

---------------------------------------------------------------------------
(* Standard input. *)

\* what may be typed on one line
Tokens == { <<"1">>, <<"2">>, <<"3">>, <<"4">>, <<"5">>, <<"x">>, <<"-", "4">>,
            <<"2", "1", "4", "7", "4", "8", "3", "6", "4", "8">> }

\* the token lists of at most n tokens
SeqsUpTo(S, n) == UNION { [1..k -> S] : k \in 0..n }

\* the characters of the lines ts, each ended by a newline
RECURSIVE Lines(_)
Lines(ts) ==
    IF ts = <<>> THEN <<>> ELSE Head(ts) \o <<"\n">> \o Lines(Tail(ts))

---------------------------------------------------------------------------
(* main(). *)

\* the menu printed at the top of every iteration
Prompt(out) ==
    PutAll(out, << "1. Adauga o camera a tronului", "", "\n",
                   "2. Adauga o temnita", "\n",
                   "3. Descrie castel", "\n",
                   "4. Incheiere operatiune", "\n",
                   "Alege o optiune: " >>)

\* a loop that only stops on option 3
LoopCond_three(o) == o # DESC_CASTEL

\* while (optiune != 4)
LoopCond(o) == o # 4

NoCall == [op |-> "none", arg |-> 0, ret |-> 0]

\* the state at the start of main(), for a standard input of at most n lines
InitOf(n) ==
    /\ pc = "init"
    /\ status = -1
    /\ optiune = 0
    /\ rege = 0
    /\ input \in SeqsUpTo(Tokens, n)
    /\ cin = [buf |-> Lines(input), pos |-> 0, failbit |-> FALSE, eofbit |-> FALSE]
    /\ cause = "none"
    /\ choices = <<>>
    /\ cout = <<>>
    /\ heap = <<>>
    /\ nextId = 1
    /\ instanta = nullptr
    /\ regi = <<>>
    /\ refs = <<>>
    /\ locals = <<>>
    /\ call = NoCall
    /\ ub = FALSE

Init == InitOf(MaxTokens)

\* Rege& rege = Rege::getInstance();
main_getInstance ==
    /\ pc = "init"
    /\ LET g == getInstance(instanta, regi)
       IN  /\ instanta' = g.instanta
           /\ regi' = g.regi
           /\ rege' = g.ret
    /\ pc' = "loop"
    /\ UNCHANGED <<status, optiune, input, cin, cause, choices, cout, heap,
                   nextId, refs, locals, call, ub>>

\* the top of one iteration: the loop test, the menu, std::cin >> optiune
Iterate(r) ==
    /\ pc = "loop"
    /\ LoopCond(optiune)
    /\ Len(choices) < MaxIter
    /\ cin' = r.cin
    /\ optiune' = r.val
    /\ cause' = IF cause = "none" THEN r.why ELSE cause
    /\ choices' = Append(choices, r.val)
    /\ UNCHANGED <<status, rege, input, instanta, refs, locals, call>>

\* case ADD_CAMERA:
case_ADD_CAMERA ==
    LET r == Extract(cin, optiune)
        c == creareCamera(heap, nextId, CAMERA_TRON)
    IN  /\ Iterate(r)
        /\ r.val = ADD_CAMERA
        /\ heap' = c.heap
        /\ nextId' = c.nextId
        /\ regi' = [regi EXCEPT ![rege] = adaugaCameraCastel(@, c.ret)]
        /\ cout' = PutAll(Prompt(cout), <<"Camera tronului adaugata.", "\n">>)
        /\ UNCHANGED <<pc, ub>>

\* case ADD_TEMNITA:
case_ADD_TEMNITA ==
    LET r == Extract(cin, optiune)
        c == creareCamera(heap, nextId, TEMNITA)
    IN  /\ Iterate(r)
        /\ r.val = ADD_TEMNITA
        /\ heap' = c.heap
        /\ nextId' = c.nextId
        /\ regi' = [regi EXCEPT ![rege] = adaugaCameraCastel(@, c.ret)]
        /\ cout' = PutAll(Prompt(cout), <<"Temnita adaugata.", "\n">>)
        /\ UNCHANGED <<pc, ub>>

\* case DESC_CASTEL:
case_DESC_CASTEL ==
    LET r == Extract(cin, optiune)
    IN  /\ Iterate(r)
        /\ r.val = DESC_CASTEL
        /\ IF HasNull(regi[rege].castel)
           THEN \E o \in Castel_info_undefined(regi[rege].castel, heap, Prompt(cout)) :
                   /\ cout' = o.cout
                   /\ pc' = IF o.crashed THEN "crashed" ELSE pc
                   /\ ub' = TRUE
           ELSE /\ cout' = infoCastel(regi[rege], heap, Prompt(cout))
                /\ UNCHANGED <<pc, ub>>
        /\ UNCHANGED <<heap, nextId, regi>>

\* case IESIRE:
case_IESIRE ==
    LET r == Extract(cin, optiune)
    IN  /\ Iterate(r)
        /\ r.val = IESIRE
        /\ cout' = PutAll(Prompt(cout), <<"Iesire program.", "\n">>)
        /\ UNCHANGED <<pc, ub, heap, nextId, regi>>

\* a default branch that also builds a throne room
case_default_adds ==
    LET r == Extract(cin, optiune)
        c == creareCamera(heap, nextId, CAMERA_TRON)
    IN  /\ Iterate(r)
        /\ r.val \notin {ADD_CAMERA, ADD_TEMNITA, DESC_CASTEL, IESIRE}
        /\ heap' = c.heap
        /\ nextId' = c.nextId
        /\ regi' = [regi EXCEPT ![rege] = adaugaCameraCastel(@, c.ret)]
        /\ cout' = PutAll(Prompt(cout), <<"Optiunea nu se afla in meniu.", "\n">>)
        /\ UNCHANGED <<pc, ub>>

\* default:
case_default ==
    LET r == Extract(cin, optiune)
    IN  /\ Iterate(r)
        /\ r.val \notin {ADD_CAMERA, ADD_TEMNITA, DESC_CASTEL, IESIRE}
        /\ cout' = PutAll(Prompt(cout), <<"Optiunea nu se afla in meniu.", "\n">>)
        /\ UNCHANGED <<pc, ub, heap, nextId, regi>>

\* the loop test fails; return 0;
main_return ==
    /\ pc = "loop"
    /\ ~LoopCond(optiune)
    /\ pc' = "done"
    /\ status' = 0
    /\ UNCHANGED <<optiune, rege, input, cin, cause, choices, cout, heap, nextId,
                   instanta, regi, refs, locals, call, ub>>

Next ==
    \/ main_getInstance
    \/ case_ADD_CAMERA
    \/ case_ADD_TEMNITA
    \/ case_DESC_CASTEL
    \/ case_IESIRE
    \/ case_default
    \/ main_return

Spec == Init /\ [][Next]_vars

\* main() on the short inputs; the process runs whenever it can take a step
InitLive == InitOf(MaxLiveTokens)

FairSpec == InitLive /\ [][Next]_vars /\ WF_vars(Next)

---------------------------------------------------------------------------
(* A client of the classes: any single-threaded sequence of calls of their *)
(* public interface, with the rooms it holds in local unique_ptr variables. *)

\* the discriminants handed to the factory: the two kinds and their neighbours
TipValues == (CAMERA_TRON - 1)..(TEMNITA + 1)

\* s without its i-th element
Remove(s, i) == SubSeq(s, 1, i - 1) \o SubSeq(s, i + 1, Len(s))

InitApi ==
    /\ pc = "api"
    /\ status = -1
    /\ optiune = 0
    /\ rege = 0
    /\ input = <<>>
    /\ cin = [buf |-> <<>>, pos |-> 0, failbit |-> FALSE, eofbit |-> FALSE]
    /\ cause = "none"
    /\ choices = <<>>
    /\ cout = <<>>
    /\ heap = <<>>
    /\ nextId = 1
    /\ instanta = nullptr
    /\ regi = <<>>
    /\ refs = <<>>
    /\ locals = <<>>
    /\ call = NoCall
    /\ ub = FALSE

\* Rege& r = Rege::getInstance();
api_getInstance ==
    /\ pc = "api"
    /\ Len(refs) < MaxRefs
    /\ LET g == getInstance(instanta, regi)
       IN  /\ instanta' = g.instanta
           /\ regi' = g.regi
           /\ refs' = Append(refs, g.ret)
           /\ call' = [op |-> "getInstance", arg |-> 0, ret |-> g.ret]
    /\ UNCHANGED <<pc, status, optiune, rege, input, cin, cause, choices, cout,
                   heap, nextId, locals, ub>>

\* auto p = factory.creareCamera(tip);
api_creareCamera(tip) ==
    /\ pc = "api"
    /\ Len(locals) < MaxLocals
    /\ nextId <= MaxObjs
    /\ LET c == creareCamera(heap, nextId, tip)
       IN  /\ heap' = c.heap
           /\ nextId' = c.nextId
           /\ locals' = Append(locals, c.ret)
           /\ call' = [op |-> "creareCamera", arg |-> tip, ret |-> c.ret]
    /\ UNCHANGED <<pc, status, optiune, rege, input, cin, cause, choices, cout,
                   instanta, regi, refs, ub>>

\* auto q = p->clone();   (p not null)
api_clone(i) ==
    /\ pc = "api"
    /\ locals[i] \in DOMAIN heap
    /\ Len(locals) < MaxLocals
    /\ nextId <= MaxObjs
    /\ LET c == clone(heap, nextId, locals[i])
       IN  /\ heap' = c.heap
           /\ nextId' = c.nextId
           /\ locals' = Append(locals, c.ret)
           /\ call' = [op |-> "clone", arg |-> locals[i], ret |-> c.ret]
    /\ UNCHANGED <<pc, status, optiune, rege, input, cin, cause, choices, cout,
                   instanta, regi, refs, ub>>

\* p->info();   (p not null; through a dangling p the call is undefined:
\* it prints either label or the process dies)
api_info(i) ==
    /\ pc = "api"
    /\ locals[i] # nullptr
    /\ Len(cout) < MaxOut
    /\ IF locals[i] \in DOMAIN heap
       THEN /\ cout' = Clona_info(heap, locals[i], cout)
            /\ UNCHANGED <<pc, ub>>
       ELSE /\ cout' \in {cout, CameraTron_info(cout), Temnita_info(cout)}
            /\ pc' \in {"api", "crashed"}
            /\ ub' = TRUE
    /\ call' = [op |-> "info", arg |-> locals[i], ret |-> 0]
    /\ UNCHANGED <<status, optiune, rege, input, cin, cause, choices, heap, nextId,
                   instanta, regi, refs, locals>>

\* p goes out of scope
api_discard(i) ==
    /\ pc = "api"
    /\ heap' = Destroy(heap, locals[i])
    /\ locals' = Remove(locals, i)
    /\ call' = [op |-> "discard", arg |-> locals[i], ret |-> 0]
    /\ UNCHANGED <<pc, status, optiune, rege, input, cin, cause, choices, cout,
                   nextId, instanta, regi, refs, ub>>

\* r.adaugaCameraCastel(std::move(p));
api_adaugaCameraCastel(k, i) ==
    /\ pc = "api"
    /\ Len(regi[refs[k]].castel.camere) < MaxObjs
    /\ regi' = [regi EXCEPT ![refs[k]] = adaugaCameraCastel(@, locals[i])]
    /\ locals' = Remove(locals, i)
    /\ call' = [op |-> "adaugaCameraCastel", arg |-> locals[i], ret |-> refs[k]]
    /\ UNCHANGED <<pc, status, optiune, rege, input, cin, cause, choices, cout,
                   heap, nextId, instanta, refs, ub>>

\* r.infoCastel();
api_infoCastel(k) ==
    /\ pc = "api"
    /\ Len(cout) < MaxOut
    /\ IF HasNull(regi[refs[k]].castel)
       THEN \E o \in Castel_info_undefined(regi[refs[k]].castel, heap, cout) :
               /\ cout' = o.cout
               /\ pc' = IF o.crashed THEN "crashed" ELSE pc
               /\ ub' = TRUE
       ELSE /\ cout' = infoCastel(regi[refs[k]], heap, cout)
            /\ UNCHANGED <<pc, ub>>
    /\ call' = [op |-> "infoCastel", arg |-> 0, ret |-> refs[k]]
    /\ UNCHANGED <<status, optiune, rege, input, cin, cause, choices, heap, nextId,
                   instanta, regi, refs, locals>>

NextApi ==
    \/ api_getInstance
    \/ \E tip \in TipValues : api_creareCamera(tip)
    \/ \E i \in DOMAIN locals : api_clone(i)
    \/ \E i \in DOMAIN locals : api_info(i)
    \/ \E i \in DOMAIN locals : api_discard(i)
    \/ \E k \in DOMAIN refs : \E i \in DOMAIN locals : api_adaugaCameraCastel(k, i)
    \/ \E k \in DOMAIN refs : api_infoCastel(k)

SpecApi == InitApi /\ [][NextApi]_vars

---------------------------------------------------------------------------
(* Properties. *)

\* the rooms of the castle of main's king
Camere == IF rege = 0 THEN <<>> ELSE regi[rege].castel.camere

EndsWith(s, e) == Len(s) >= Len(e) /\ SubSeq(s, Len(s) - Len(e) + 1, Len(s)) = e

Count(s, x) == Len(SelectSeq(s, LAMBDA y : y = x))

Front(s) == SubSeq(s, 1, Len(s) - 1)

\* the fragments of the menu
Menu == Prompt(<<>>)

NotInMenu == <<"Optiunea nu se afla in meniu.", "\n">>

\* the choices that add a room, in the order they were made
Adds(cs) == SelectSeq(cs, LAMBDA v : v \in {1, 2})

\* the describe output after the choices cs
Described(cs) ==
    <<"Castelul are: ">>
    \o [i \in 1..Len(Adds(cs)) |->
          IF Adds(cs)[i] = 1 THEN "camera tronului, " ELSE "temnita, "]
    \o <<"\n">>

\* the last step was an iteration of the menu loop
Iterated == choices' # choices

\* C1: each time choice 3 is processed, what is printed after the prompt is
\* exactly "Castelul are: ", then one label per choice 1 or 2 processed before,
\* in the order of those choices, then a newline.
C1_DescribeListsAddedRooms ==
    (choices # <<>> /\ Last(choices) = 3)
        => EndsWith(cout, <<"Alege o optiune: ">> \o Described(Front(choices)))

\* the scenario 1, 2, 1, 3, 4 at its describe
C1_Witness ==
    /\ input = << <<"1">>, <<"2">>, <<"1">>, <<"3">>, <<"4">> >>
    /\ choices = <<1, 2, 1, 3>>
    /\ EndsWith(cout, <<"Castelul are: ", "camera tronului, ", "temnita, ",
                        "camera tronului, ", "\n">>)

\* a value is an integer token's when the whole token parses, in range
TokenRead(t) == Extract([buf |-> t \o <<"\n">>, pos |-> 0,
                         failbit |-> FALSE, eofbit |-> FALSE], 0)
IsInteger(t) == ~TokenRead(t).cin.failbit /\ TokenRead(t).cin.pos = Len(t)
IntegersWithFour ==
    /\ \A i \in DOMAIN input : IsInteger(input[i])
    /\ \E i \in DOMAIN input : TokenRead(input[i]).val = 4

\* C2: the loop is Terminated exactly after the first 4 was read: until then it
\* awaits a choice; the 4 is the last choice ever read, the exit message is
\* printed once, the step after it changes nothing but ends the process with
\* status 0; and on an input of integers with a 4 in it the process terminates.
C2_TerminatesExactlyOnFour ==
    /\ [](/\ pc \in {"init", "loop", "done"}
          /\ (pc = "done") => (4 \in {choices[i] : i \in DOMAIN choices} /\ status = 0)
          /\ (pc # "done") => status = -1
          /\ \A i \in DOMAIN choices : choices[i] = 4 => i = Len(choices)
          /\ Count(cout, "Iesire program.") = Count(choices, 4)
          /\ (choices # <<>> /\ Last(choices) # 4)
                => (pc = "loop" /\ LoopCond(optiune)))
    /\ [][/\ (Iterated /\ Last(choices') = 4)
               => (EndsWith(cout', <<"Iesire program.", "\n">>) /\ Camere' = Camere)
          /\ (choices # <<>> /\ Last(choices) = 4)
               => (/\ pc' = "done" /\ status' = 0
                   /\ UNCHANGED <<cin, cout, choices, regi, heap, optiune>>)]_vars
    /\ (IntegersWithFour ~> (pc = "done" /\ status = 0))

\* the process has ended after the choices 1, 4
C2_Witness ==
    /\ pc = "done" /\ status = 0
    /\ choices = <<1, 4>>
    /\ Len(Camere) = 1

\* C3: an iteration that reads a choice other than 1, 2, 3 or 4 prints the menu
\* and the "not in the menu" message, leaves the rooms of the castle as they
\* were and goes on to the next iteration.
C3_UnknownChoiceChangesNothing ==
    [][(Iterated /\ Last(choices') \notin {1, 2, 3, 4})
          => /\ cout' = cout \o Menu \o NotInMenu
             /\ Camere' = Camere
             /\ heap' = heap
             /\ pc' = "loop" /\ LoopCond(optiune')]_vars

\* a 5 was read after a room was added
C3_Witness ==
    /\ choices = <<1, 5>>
    /\ ~cin.failbit
    /\ Len(Camere) = 1
    /\ EndsWith(cout, NotInMenu)

\* C4: no entry of the castle's room sequence is null: every entry is a live
\* CameraTron or Temnita.
C4_NoNullRoom ==
    \A k \in DOMAIN regi : \A i \in DOMAIN regi[k].castel.camere :
        LET p == regi[k].castel.camere[i]
        IN  p # nullptr /\ p \in DOMAIN heap /\ heap[p] \in {"CameraTron", "Temnita"}

\* a castle that holds a room of each kind
C4_Witness ==
    /\ Len(Camere) = 2
    /\ heap[Camere[1]] = "Temnita"
    /\ heap[Camere[2]] = "CameraTron"

\* what makes C4 rest on main's calls: a client that hands the factory another
\* kind gets nullptr, and adaugaCamera appends it unchecked (reached in SpecApi)
C4_ClientAddsNull ==
    /\ call.op = "adaugaCameraCastel" /\ call.arg = nullptr
    /\ \E k \in DOMAIN regi : HasNull(regi[k].castel)

\* C5: at most one Rege is ever constructed: the first getInstance() makes it,
\* every later call returns it and constructs nothing, whatever was done in
\* between; and a room added through one of the references returned is in the
\* castle seen through every one of them.
C5_OneKing ==
    /\ [](/\ Len(regi) <= 1
          /\ (instanta = nullptr) <=> (regi = <<>>)
          /\ \A k \in DOMAIN refs : refs[k] = instanta /\ refs[k] \in DOMAIN regi)
    /\ [][/\ (call'.op = "getInstance" /\ instanta # nullptr)
               => (regi' = regi /\ instanta' = instanta /\ call'.ret = instanta)
          /\ (call'.op = "adaugaCameraCastel")
               => \A k \in DOMAIN refs' :
                     regi'[refs'[k]].castel.camere
                        = Append(regi[refs[k]].castel.camere, call'.arg)
          /\ (call'.op = "infoCastel" /\ ~ub')
               => \A k \in DOMAIN refs :
                     cout' = infoCastel(regi[refs[k]], heap, cout)]_vars

\* two references are held, a dungeon was added and the castle described
C5_Witness ==
    /\ Len(refs) = 2
    /\ call.op = "infoCastel"
    /\ cout = <<"Castelul are: ", "temnita, ", "\n">>

\* C6: creareCamera(tip) returns a new CameraTron, whose info() prints
\* "camera tronului, ", for CAMERA_TRON, a new Temnita, whose info() prints
\* "temnita, ", for TEMNITA, and nullptr for any other value; and it changes
\* neither an existing room, nor a castle, nor the king, nor the output.
C6_FactoryByKind ==
    [][(call'.op = "creareCamera")
          => LET ret == call'.ret IN
             /\ (call'.arg = CAMERA_TRON)
                   => (/\ ret # nullptr /\ ret \notin DOMAIN heap
                       /\ heap'[ret] = "CameraTron"
                       /\ Clona_info(heap', ret, <<>>) = <<"camera tronului, ">>)
             /\ (call'.arg = TEMNITA)
                   => (/\ ret # nullptr /\ ret \notin DOMAIN heap
                       /\ heap'[ret] = "Temnita"
                       /\ Clona_info(heap', ret, <<>>) = <<"temnita, ">>)
             /\ (call'.arg \notin {CAMERA_TRON, TEMNITA})
                   => (ret = nullptr /\ heap' = heap)
             /\ \A p \in DOMAIN heap : p \in DOMAIN heap' /\ heap'[p] = heap[p]
             /\ DOMAIN heap' \subseteq DOMAIN heap \cup {ret}
             /\ UNCHANGED <<regi, instanta, refs, cout>>]_vars

\* the factory made a dungeon and then nothing for the kind after TEMNITA
C6_Witness ==
    /\ call = [op |-> "creareCamera", arg |-> TEMNITA + 1, ret |-> nullptr]
    /\ Len(locals) = 2
    /\ locals[1] # nullptr /\ heap[locals[1]] = "Temnita"
    /\ locals[2] = nullptr

\* every unique_ptr of the client and of the castles, null ones left out
Owned ==
    SelectSeq(locals \o Concat([k \in DOMAIN regi |-> regi[k].castel.camere]),
              LAMBDA p : p # nullptr)

\* C7: clone() returns a new room of the source's type whose info() prints
\* what the source's prints; it is another object, with one owner of its own;
\* and whatever is done with one room (added, described, discarded) leaves
\* every other room, and every castle it is not added to, as it was.
C7_CloneIsIndependent ==
    /\ [](/\ \A i, j \in DOMAIN Owned : Owned[i] = Owned[j] => i = j
          /\ {Owned[i] : i \in DOMAIN Owned} = DOMAIN heap)
    /\ [][/\ (call'.op = "clone")
               => LET src == call'.arg
                      ret == call'.ret
                  IN  /\ ret # nullptr /\ ret # src /\ ret \notin DOMAIN heap
                      /\ heap'[ret] = heap[src]
                      /\ Clona_info(heap', ret, <<>>) = Clona_info(heap, src, <<>>)
                      /\ DOMAIN heap' = DOMAIN heap \cup {ret}
          /\ \A p \in DOMAIN heap :
                \/ p \in DOMAIN heap' /\ heap'[p] = heap[p]
                \/ call'.op = "discard" /\ call'.arg = p
          /\ (call'.op \in {"clone", "info", "discard"}) => regi' = regi
          /\ (call'.op = "info") => cout' = Clona_info(heap, call'.arg, cout)]_vars

\* a dungeon sits in the castle and its clone was just discarded
C7_Witness ==
    /\ call.op = "discard" /\ call.arg = 2
    /\ locals = <<>>
    /\ Len(regi) = 1 /\ regi[1].castel.camere = <<1>>
    /\ heap = (1 :> "Temnita")

\* a room was cloned and both are held
C7_CloneHeld ==
    /\ call.op = "clone"
    /\ locals = <<call.arg, call.ret>>
    /\ heap[call.ret] = "CameraTron"

\* C8: describing a castle that has no room prints "Castelul are: " and the
\* newline and nothing between them; on the input 3, 4 the whole output is the
\* menu, that description, the menu and the exit message, and the exit
\* status is 0.
C8_EmptyCastleDescribed ==
    /\ (choices # <<>> /\ Last(choices) = 3 /\ Camere = <<>>)
          => EndsWith(cout, <<"Alege o optiune: ", "Castelul are: ", "\n">>)
    /\ (pc = "done" /\ choices = <<3, 4>>)
          => /\ cout = Menu \o <<"Castelul are: ", "\n">>
                       \o Menu \o <<"Iesire program.", "\n">>
             /\ status = 0

\* the process has ended on the input 3, 4
C8_Witness ==
    /\ input = << <<"3">>, <<"4">> >>
    /\ pc = "done"
    /\ choices = <<3, 4>>

\* C9: every step is at most one iteration; an iteration with choice 1 or 2
\* appends one new room of that kind at the end of the sequence, any other
\* iteration and any other step leaves the sequence as it was.
C9_OneAppendPerIteration ==
    [][/\ Iterated => choices' = Append(choices, optiune')
       /\ IF Iterated /\ optiune' \in {1, 2}
          THEN \E p \in DOMAIN heap' \ DOMAIN heap :
                  /\ Camere' = Append(Camere, p)
                  /\ heap'[p] = IF optiune' = 1 THEN "CameraTron" ELSE "Temnita"
          ELSE Camere' = Camere
       /\ Len(Camere') >= Len(Camere)
       /\ SubSeq(Camere', 1, Len(Camere)) = Camere]_vars

\* two rooms were appended, with a describe and an unknown choice in between
C9_Witness ==
    /\ choices = <<1, 3, 5, 2>>
    /\ Len(Camere) = 2
    /\ heap[Camere[1]] = "CameraTron" /\ heap[Camere[2]] = "Temnita"

\* C10 as stated: after a read that fails on a non-numeric token or at the end
\* of the input, optiune is 0 and every iteration takes the default branch:
\* the rooms stay as they are and the "not in the menu" message is printed.
C10_FailedReadStoresZero ==
    [][(Iterated /\ cin'.failbit /\ cause' \in {"nonnumeric", "eof"})
          => /\ optiune' = 0
             /\ Camere' = Camere
             /\ cout' = cout \o Menu \o NotInMenu
             /\ pc' = "loop"]_vars

\* C10 amended: after a failed read the stream stays failed and the loop is
\* never Terminated. After a non-numeric token optiune is 0: the default
\* branch is taken, the rooms stay as they are and the "not in the menu"
\* message is printed. At the end of the input optiune keeps the value it had,
\* and the iteration takes the branch of that value again: 1 or 2 appends one
\* more room, 3 describes the castle, any other value prints the message.
C10_FailedReadKeepsLooping ==
    [][/\ cin.failbit => cin'.failbit
       /\ (Iterated /\ cin'.failbit)
            => /\ pc' = "loop" /\ LoopCond(optiune') /\ status' = -1
               /\ (cause' = "nonnumeric")
                    => /\ optiune' = 0
                       /\ Camere' = Camere
                       /\ cout' = cout \o Menu \o NotInMenu
               /\ (cause' = "eof")
                    => /\ optiune' = optiune
                       /\ (optiune \in {1, 2}) => Len(Camere') = Len(Camere) + 1
                       /\ (optiune \notin {1, 2}) => Camere' = Camere
                       /\ (optiune = 3)
                            => cout' = cout \o Menu \o Described(Front(choices))
                       /\ (optiune \notin {1, 2, 3})
                            => cout' = cout \o Menu \o NotInMenu]_vars

\* the input was the line 1 alone: the end of the input added two more rooms
C10_Witness ==
    /\ input = << <<"1">> >>
    /\ cause = "eof" /\ cin.failbit
    /\ choices = <<1, 1, 1>>
    /\ Len(Camere) = 3

\* a non-numeric line after a 2: the default branch, with optiune 0
C10_NonNumeric ==
    /\ input = << <<"2">>, <<"x">>, <<"4">> >>
    /\ cause = "nonnumeric"
    /\ choices = <<2, 0, 0>>
    /\ Len(Camere) = 1

====
